---- MODULE Spec2Model ----
(***************************************************************************)
(* Model of simple_email_sender.py: run_campaign (the orchestrator),       *)
(* send_batch (the batch sender) and log_send (the send log).              *)
(*                                                                         *)
(* A campaign run is a sequential process; its position is proc[r].pc.     *)
(* The SMTP server and the SQLite file are the environment: every call to  *)
(* them draws its outcome from the outcomes the library can produce.       *)
(* Fields run, batch and pos of a log row and fields eligible, batches,    *)
(* tries, built, slept, transmits, connects, cooldowns, config_errors,    *)
(* start_day and seen of a run are history: they record what happened and  *)
(* are never read by an action.                                            *)
(***************************************************************************)
EXTENDS Integers, Sequences, FiniteSets, TLC

\* ---- bounds ----
MaxLen == 3          \* longest recipient list
MaxPerDay == 3       \* largest TOTAL_PER_DAY
MaxBatchSize == 2    \* largest BATCH_SIZE
MaxRuns == 2         \* campaign runs per behaviour
MaxDay == 2          \* calendar days per behaviour
MaxSmtpFaults == 3   \* failures the SMTP server injects per behaviour
MaxSqliteFaults == 1 \* INSERTs that raise per behaviour, when they may
MaxLenConc == 2      \* longest recipient list of concurrent campaigns
MaxParallel == 2     \* campaigns that run at the same time
MaxSmtpFaultsConc == 1 \* SMTP failures per behaviour of concurrent campaigns
MaxRunsFair == 1     \* runs whose termination is examined
MaxSmtpFaultsFair == 3 \* SMTP failures per behaviour of those runs

\* the addresses of the CSV, in the order of their first occurrence
EmailAt == <<"a", "b", "c">>
Emails == {EmailAt[n] : n \in DOMAIN EmailAt}
Runs == 1..MaxRuns

\* ---- program constants ----
MaxAttempts == 3     \* for attempt in range(3)

\* error_message values
NULL == "NULL"
AuthErrText == "SMTP Authentication Error"
ConnErrText == "Connection refused"
RejectErrText == "Recipient refused"
LostErrText == "Server not connected"
LogErrText == "database is locked"
AuthExcText == "535 Authentication failed"

VARIABLES
    recipients_df,   \* the CSV: a sequence of emails, position = DataFrame index
    total_per_day,   \* TOTAL_PER_DAY
    batch_size,      \* BATCH_SIZE
    smtp_faults,     \* failures the SMTP server may still inject
    sqlite_faults,   \* INSERTs that may still raise
    today,           \* date('now')
    sends,           \* the sends table, in insertion order
    proc             \* the campaign runs

vars == <<recipients_df, total_per_day, batch_size, smtp_faults,
          sqlite_faults, today, sends, proc>>

Min(a, b) == IF a < b THEN a ELSE b

\* the recipient lists of at most n lines, one for each pattern of equal and
\* distinct addresses (addresses are only ever compared for equality)
RecipientLists(n) ==
    LET idx == UNION {[1..k -> DOMAIN EmailAt] : k \in 0..n}
        canon(f) == \A k \in DOMAIN f :
                        f[k] = 1 \/ \E m \in 1..(k - 1) : f[m] >= f[k] - 1
    IN {[k \in DOMAIN f |-> EmailAt[f[k]]] : f \in {g \in idx : canon(g)}}

\* ---- Send Log ----

\* one row of the sends table; timestamp is the day of the insert
Row(email, status, err, r, b, pos) ==
    [email |-> email, status |-> status, error_message |-> err,
     day |-> today, run |-> r, batch |-> b, pos |-> pos]

\* log_send: the row is appended when the INSERT succeeds
log_send(rows, row, ok) == IF ok THEN Append(rows, row) ELSE rows

\* outcomes of one INSERT
LogOutcomes == IF sqlite_faults > 0 THEN BOOLEAN ELSE {TRUE}

\* the query without its date condition
today_sent_df_any_day(rows, day) ==
    {rows[k].email : k \in {n \in DOMAIN rows :
        rows[n].status \in {"sent", "dry-run"}}}

\* the query without 'dry-run' in its status list
today_sent_df_sent_only(rows, day) ==
    {rows[k].email : k \in {n \in DOMAIN rows :
        rows[n].status = "sent" /\ rows[n].day = day}}

\* the query answered with the empty frame of the except branch
today_sent_df_empty(rows, day) == {}

\* SELECT email FROM sends WHERE status IN ('sent','dry-run')
\*   AND date(timestamp) = date('now')
today_sent_df(rows, day) ==
    {rows[k].email : k \in {n \in DOMAIN rows :
        rows[n].status \in {"sent", "dry-run"} /\ rows[n].day = day}}

\* ---- Campaign Orchestrator: pure parts ----

\* recipients_df[~recipients_df['email'].isin(today_sent_df['email'])]
\* as the sequence of kept DataFrame positions
not_sent(df, sent) ==
    SelectSeq([p \in 1..Len(df) |-> p], LAMBDA p : df[p] \notin sent)

\* head that keeps one entry too many
head_off_by_one(s, n) == SubSeq(s, 1, Min(n + 1, Len(s)))

\* DataFrame.head(n), n >= 0
head(s, n) == SubSeq(s, 1, Min(n, Len(s)))

\* the number of batches rounded down
num_batches_floor(E, B) == E \div B

\* (len(recipients_to_send) + batch_size - 1) // batch_size
num_batches(E, B) == (E + B - 1) \div B

\* a run that starts its batch loop without the emptiness test
after_filter_unchecked(todo) == "batch"

\* if recipients_to_send.empty: print and return, else go on to the batches
after_filter(todo) == IF todo = <<>> THEN "done" ELSE "batch"

\* a loop that sleeps after its last batch too
more_batches_after_last(i, n) == i < n

\* if i < num_batches - 1: sleep before the next batch
more_batches(i, n) == i < n - 1

\* recipients_to_send.iloc[start_index:end_index]
iloc(s, start_index, end_index) ==
    SubSeq(s, start_index + 1, Min(end_index, Len(s)))

\* ---- Batch Sender: pure parts ----

\* a retry loop that gives up after the second attempt
should_retry_twice(attempt) == attempt < MaxAttempts - 2

\* a retry loop without a last attempt
should_retry_always(attempt) == TRUE

\* if attempt < 2: back off and retry, else log 'failed'
should_retry(attempt) == attempt < MaxAttempts - 1

\* a backoff that grows linearly
backoff_secs_linear(attempt) == 2 * attempt

\* time.sleep(2 ** attempt)
backoff_secs(attempt) == 2 ^ attempt

\* the message logged by the two except clauses of send_batch
except_message(exc, e) == IF exc = "auth" THEN AuthErrText ELSE e

\* an except clause that skips the first recipient of the batch
failed_rows_skip_first(df, batch, k, msg, r, b) ==
    [n \in 1..(k - 1) |->
        Row(df[batch[n + 1]], "failed", msg, r, b, batch[n + 1])]

\* rows written by an except clause of send_batch for the first k recipients
failed_rows(df, batch, k, msg, r, b) ==
    [n \in 1..k |-> Row(df[batch[n]], "failed", msg, r, b, batch[n])]

\* position of the loop over recipients.iterrows() at recipient j
\* a loop whose every recipient is followed by time.sleep(per_email_delay)
sleep_after_configured(status) == "per_email_delay"

\* the sleep that follows a recipient's outcome: time.sleep(0.1) and continue
\* after a dry-run, time.sleep(per_email_delay) after the retry loop
sleep_after(status) ==
    IF status = "dry-run" THEN "pacing" ELSE "per_email_delay"

loop_head(batch, j, dry_run) ==
    IF j > Len(batch) THEN "returned"
    ELSE IF dry_run THEN "dry_run" ELSE "attempt"

IdleProc ==
    [pc |-> "idle", dry_run |-> FALSE, smtp_configured |-> FALSE,
     eligible |-> <<>>, recipients_to_send |-> <<>>, i |-> 0,
     batch_df |-> <<>>, batches |-> <<>>, j |-> 0, attempt |-> 0,
     server |-> "none", exc |-> "none", e |-> NULL,
     tries |-> <<>>, built |-> 0, slept |-> <<>>, transmits |-> <<>>,
     connects |-> 0, cooldowns |-> 0, config_errors |-> 0, start_day |-> 0,
     seen |-> 0]

InitCampaign ==
    /\ recipients_df \in RecipientLists(MaxLen)
    /\ total_per_day \in 1..MaxPerDay
    /\ batch_size \in 1..MaxBatchSize
    /\ today = 1
    /\ sends = <<>>
    /\ proc = [r \in Runs |-> IdleProc]

InitCommon == InitCampaign /\ smtp_faults = MaxSmtpFaults

Init == InitCommon /\ sqlite_faults = 0

InitFaults == InitCommon /\ sqlite_faults = MaxSqliteFaults

\* ---- actions ----

Others(r) == Runs \ {r}

\* a run that is neither waiting to start nor finished
Active(r) == proc[r].pc \notin {"idle", "done", "crashed"}

\* run_campaign up to the first batch: read the configuration, query the
\* log, filter, cap, and stop when nothing is left
Filter(r) ==
    /\ proc[r].pc = "idle"
    /\ \A q \in Runs : q < r => proc[q].pc # "idle"
    /\ \E dry \in BOOLEAN, cfg \in BOOLEAN :
        LET elig == not_sent(recipients_df, today_sent_df(sends, today))
            todo == head(elig, total_per_day)
        IN proc' = [proc EXCEPT ![r] =
                [@ EXCEPT !.dry_run = dry, !.smtp_configured = cfg,
                          !.eligible = elig, !.recipients_to_send = todo,
                          !.start_day = today, !.seen = Len(sends),
                          !.transmits = [n \in DOMAIN recipients_df |-> 0],
                          !.pc = after_filter(todo)]]
    /\ UNCHANGED <<recipients_df, total_per_day, batch_size, smtp_faults,
                   sqlite_faults, today, sends>>

\* a campaign is run from the command line once the one before it is over
RunCampaign(r) ==
    /\ \A q \in Others(r) : ~Active(q)
    /\ Filter(r)

\* a campaign is launched by the 'Run Locally' button, which starts the
\* script with Popen and does not wait for the one started before
RunCampaignConcurrently(r) ==
    /\ Cardinality({q \in Runs : Active(q)}) < MaxParallel
    /\ Filter(r)

\* loop body of run_campaign up to the call, and send_batch up to the
\* check of the SMTP settings
SendBatch(r) ==
    /\ proc[r].pc = "batch"
    /\ LET p == proc[r]
           start_index == p.i * batch_size
           end_index == start_index + batch_size
           batch == iloc(p.recipients_to_send, start_index, end_index)
       IN proc' = [proc EXCEPT ![r] =
               [@ EXCEPT !.batch_df = batch,
                         !.batches = Append(@, batch),
                         !.server = "none", !.exc = "none", !.e = NULL,
                         !.j = 0, !.attempt = 0, !.tries = <<>>,
                 !.built = 0, !.slept = <<>>,
                         !.config_errors =
                             IF p.smtp_configured THEN @ ELSE @ + 1,
                         !.pc = IF p.smtp_configured THEN "connect"
                                ELSE "returned"]]
    /\ UNCHANGED <<recipients_df, total_per_day, batch_size, smtp_faults,
                   sqlite_faults, today, sends>>

\* outcomes of smtplib.SMTP(), starttls() and login()
OpenOutcomes == IF smtp_faults > 0 THEN {"ok", "auth", "conn"} ELSE {"ok"}

\* with smtplib.SMTP(...) as server: starttls, login
OpenSession(r) ==
    /\ proc[r].pc = "connect"
    /\ \E o \in OpenOutcomes :
        /\ proc' = [proc EXCEPT ![r] =
            [@ EXCEPT !.connects = @ + 1,
                      !.server = IF o = "ok" THEN "open" ELSE "closed",
                      !.exc = IF o = "ok" THEN "none"
                              ELSE IF o = "auth" THEN "auth" ELSE "other",
                      !.e = IF o = "ok" THEN NULL
                            ELSE IF o = "auth" THEN AuthExcText
                            ELSE ConnErrText,
                      !.j = 1,
                      !.pc = IF o = "ok"
                             THEN loop_head(proc[r].batch_df, 1,
                                            proc[r].dry_run)
                             ELSE "except"]]
        /\ smtp_faults' = IF o = "ok" THEN smtp_faults ELSE smtp_faults - 1
    /\ UNCHANGED <<recipients_df, total_per_day, batch_size, sqlite_faults,
                   today, sends>>

\* the dry-run branch of the recipient loop
DryRunRecipient(r) ==
    /\ proc[r].pc = "dry_run"
    /\ LET p == proc[r]
           pos == p.batch_df[p.j]
           email == recipients_df[pos]
       IN \E ok \in LogOutcomes :
           /\ sends' = log_send(sends,
                   Row(email, "dry-run", NULL, r, p.i, pos), ok)
           /\ proc' = [proc EXCEPT ![r] =
                 IF ok THEN [@ EXCEPT !.pc = sleep_after("dry-run")]
                 ELSE [@ EXCEPT !.pc = "except", !.exc = "other",
                                !.e = LogErrText, !.server = "closed"]]
           /\ sqlite_faults' = IF ok THEN sqlite_faults ELSE sqlite_faults - 1
    /\ UNCHANGED <<recipients_df, total_per_day, batch_size, smtp_faults,
                   today>>

\* outcomes of server.send_message on a session in the given state: a lost
\* session stays lost
SendOutcomes(server) ==
    IF server = "lost" THEN {"lost"}
    ELSE IF smtp_faults > 0 THEN {"ok", "rejected", "lost"} ELSE {"ok"}

\* str(e) of the exception raised by a failed send_message
send_error(o) == IF o = "lost" THEN LostErrText ELSE RejectErrText

\* one pass of the retry loop: create_message, send_message, and the
\* log_send calls of the try block and of its except clause
Attempt(r) ==
    /\ proc[r].pc = "attempt"
    /\ LET p == proc[r]
           pos == p.batch_df[p.j]
           email == recipients_df[pos]
       IN \E o \in SendOutcomes(p.server), ok1 \in LogOutcomes :
           LET sent == o = "ok"
               \* log_send(email, name, 'sent') of the try block
               logged == sent /\ ok1
               \* the exception the except clause of line 118 catches
               e == IF sent THEN LogErrText ELSE send_error(o)
               left == IF sent /\ ~ok1 THEN sqlite_faults - 1
                       ELSE sqlite_faults
               \* the run after the call of send_message
               q == [p EXCEPT !.built = @ + 1,
                              !.tries = Append(@, sent),
                              !.transmits[pos] = IF sent THEN @ + 1 ELSE @,
                              !.server = IF o = "lost" THEN "lost" ELSE @]
           IN /\ smtp_faults' = IF sent \/ p.server = "lost" THEN smtp_faults
                                ELSE smtp_faults - 1
              /\ IF logged
                 THEN /\ sends' = log_send(sends,
                            Row(email, "sent", NULL, r, p.i, pos), TRUE)
                      /\ sqlite_faults' = left
                      /\ proc' = [proc EXCEPT ![r] =
                            [q EXCEPT !.pc = sleep_after("sent")]]
                 ELSE IF should_retry(p.attempt)
                 THEN /\ sends' = sends
                      /\ sqlite_faults' = left
                      /\ proc' = [proc EXCEPT ![r] =
                            [q EXCEPT !.pc = "backoff", !.e = e,
                                      !.slept = Append(@,
                                          backoff_secs(p.attempt))]]
                 ELSE \E ok2 \in IF left > 0 THEN BOOLEAN ELSE {TRUE} :
                      /\ sends' = log_send(sends,
                            Row(email, "failed", e, r, p.i, pos), ok2)
                      /\ sqlite_faults' = IF ok2 THEN left ELSE left - 1
                      /\ proc' = [proc EXCEPT ![r] =
                            IF ok2
                            THEN [q EXCEPT !.pc = sleep_after("failed"),
                                           !.e = e]
                            ELSE [q EXCEPT !.pc = "except",
                                           !.exc = "other",
                                           !.e = LogErrText,
                                           !.server = "closed"]]
    /\ UNCHANGED <<recipients_df, total_per_day, batch_size, today>>

\* time.sleep(2 ** attempt), then the next pass of the retry loop
Backoff(r) ==
    /\ proc[r].pc = "backoff"
    /\ proc' = [proc EXCEPT ![r] =
            [@ EXCEPT !.attempt = @ + 1, !.pc = "attempt"]]
    /\ UNCHANGED <<recipients_df, total_per_day, batch_size, smtp_faults,
                   sqlite_faults, today, sends>>

\* a loop whose session is left open when the loop is over
next_recipient_no_close(p) ==
    [p EXCEPT !.j = @ + 1, !.attempt = 0, !.e = NULL, !.tries = <<>>,
                 !.built = 0, !.slept = <<>>,
              !.pc = loop_head(p.batch_df, p.j + 1, p.dry_run)]

\* a loop that is left as soon as a recipient has failed
next_recipient_stop_on_failure(p) ==
    LET pc == IF p.e # NULL THEN "returned"
              ELSE loop_head(p.batch_df, p.j + 1, p.dry_run)
    IN [p EXCEPT !.j = @ + 1, !.attempt = 0, !.e = NULL, !.tries = <<>>,
                 !.built = 0, !.slept = <<>>,
                 !.pc = pc,
                 !.server = IF pc = "returned" THEN "closed" ELSE @]

\* the loop moves to recipient j + 1; leaving the loop leaves the with
\* block, which closes the session
next_recipient(p) ==
    LET pc == loop_head(p.batch_df, p.j + 1, p.dry_run)
    IN [p EXCEPT !.j = @ + 1, !.attempt = 0, !.e = NULL, !.tries = <<>>,
                 !.built = 0, !.slept = <<>>,
                 !.pc = pc,
                 !.server = IF pc = "returned" THEN "closed" ELSE @]

\* time.sleep(per_email_delay) after a recipient's retry loop
PerEmailDelay(r) ==
    /\ proc[r].pc = "per_email_delay"
    /\ proc' = [proc EXCEPT ![r] = next_recipient(@)]
    /\ UNCHANGED <<recipients_df, total_per_day, batch_size, smtp_faults,
                   sqlite_faults, today, sends>>

\* time.sleep(0.1); continue
Pacing(r) ==
    /\ proc[r].pc = "pacing"
    /\ proc' = [proc EXCEPT ![r] = next_recipient(@)]
    /\ UNCHANGED <<recipients_df, total_per_day, batch_size, smtp_faults,
                   sqlite_faults, today, sends>>

\* number of INSERTs of an except clause that succeed before one raises
ExceptWrites(n) == IF sqlite_faults > 0 THEN 0..n ELSE {n}

\* the except clauses of send_batch: one 'failed' row per recipient of the
\* batch; an INSERT that raises here leaves send_batch and run_campaign
BatchExcept(r) ==
    /\ proc[r].pc = "except"
    /\ LET p == proc[r]
           n == Len(p.batch_df)
       IN \E k \in ExceptWrites(n) :
           /\ sends' = sends \o failed_rows(recipients_df, p.batch_df, k,
                                   except_message(p.exc, p.e), r, p.i)
           /\ proc' = [proc EXCEPT ![r] =
                 [@ EXCEPT !.pc = IF k = n THEN "returned" ELSE "crashed"]]
           /\ sqlite_faults' = IF k = n THEN sqlite_faults
                                ELSE sqlite_faults - 1
    /\ UNCHANGED <<recipients_df, total_per_day, batch_size, smtp_faults,
                   today>>

\* send_batch has returned: wait batch_interval if batches remain, else
\* print 'All batches processed.'
Returned(r) ==
    /\ proc[r].pc = "returned"
    /\ LET p == proc[r]
           more == more_batches(p.i,
                       num_batches(Len(p.recipients_to_send), batch_size))
       IN proc' = [proc EXCEPT ![r] =
               [@ EXCEPT !.pc = IF more THEN "cooldown" ELSE "done",
                         !.batch_df = <<>>, !.j = 0, !.attempt = 0,
                         !.tries = <<>>,
                 !.built = 0, !.slept = <<>>,
                         !.server = "none", !.exc = "none", !.e = NULL]]
    /\ UNCHANGED <<recipients_df, total_per_day, batch_size, smtp_faults,
                   sqlite_faults, today, sends>>

\* time.sleep(batch_interval), then the next batch
Cooldown(r) ==
    /\ proc[r].pc = "cooldown"
    /\ proc' = [proc EXCEPT ![r] =
            [@ EXCEPT !.cooldowns = @ + 1, !.i = @ + 1, !.pc = "batch"]]
    /\ UNCHANGED <<recipients_df, total_per_day, batch_size, smtp_faults,
                   sqlite_faults, today, sends>>

\* the calendar day changes while no campaign is running
Midnight ==
    /\ today < MaxDay
    /\ \A r \in Runs : ~Active(r)
    /\ today' = today + 1
    /\ UNCHANGED <<recipients_df, total_per_day, batch_size, smtp_faults,
                   sqlite_faults, sends, proc>>

Next ==
    \/ \E r \in Runs : RunCampaign(r)
    \/ \E r \in Runs : SendBatch(r)
    \/ \E r \in Runs : OpenSession(r)
    \/ \E r \in Runs : DryRunRecipient(r)
    \/ \E r \in Runs : Attempt(r)
    \/ \E r \in Runs : Backoff(r)
    \/ \E r \in Runs : PerEmailDelay(r)
    \/ \E r \in Runs : Pacing(r)
    \/ \E r \in Runs : BatchExcept(r)
    \/ \E r \in Runs : Returned(r)
    \/ \E r \in Runs : Cooldown(r)
    \/ Midnight

\* the SQLite file accepts every INSERT
Spec == Init /\ [][Next]_vars

\* an INSERT may raise
SpecFaults == InitFaults /\ [][Next]_vars

\* the next statement of a run that has started: every call and every sleep
\* of run_campaign and send_batch returns
Step(r) ==
    \/ SendBatch(r)
    \/ OpenSession(r)
    \/ DryRunRecipient(r)
    \/ Attempt(r)
    \/ Backoff(r)
    \/ PerEmailDelay(r)
    \/ Pacing(r)
    \/ BatchExcept(r)
    \/ Returned(r)
    \/ Cooldown(r)

\* the campaigns whose termination is examined
InitFair ==
    /\ InitCampaign
    /\ smtp_faults = MaxSmtpFaultsFair
    /\ sqlite_faults = 0

\* python simple_email_sender.py, run at most MaxRunsFair times
RunCampaignFair(r) == r <= MaxRunsFair /\ RunCampaign(r)

NextFair ==
    \/ \E r \in Runs : RunCampaignFair(r)
    \/ \E r \in Runs : SendBatch(r)
    \/ \E r \in Runs : OpenSession(r)
    \/ \E r \in Runs : DryRunRecipient(r)
    \/ \E r \in Runs : Attempt(r)
    \/ \E r \in Runs : Backoff(r)
    \/ \E r \in Runs : PerEmailDelay(r)
    \/ \E r \in Runs : Pacing(r)
    \/ \E r \in Runs : BatchExcept(r)
    \/ \E r \in Runs : Returned(r)
    \/ \E r \in Runs : Cooldown(r)
    \/ Midnight

\* the interpreter goes on executing a run that has started
SpecFair ==
    /\ InitFair
    /\ [][NextFair]_vars
    /\ \A r \in Runs : WF_vars(Step(r))

\* campaigns launched from the UI run side by side
InitConc ==
    /\ InitCampaign
    /\ Len(recipients_df) <= MaxLenConc
    /\ smtp_faults = MaxSmtpFaultsConc
    /\ sqlite_faults = 0

NextConc ==
    \/ \E r \in Runs : RunCampaignConcurrently(r)
    \/ \E r \in Runs : SendBatch(r)
    \/ \E r \in Runs : OpenSession(r)
    \/ \E r \in Runs : DryRunRecipient(r)
    \/ \E r \in Runs : Attempt(r)
    \/ \E r \in Runs : Backoff(r)
    \/ \E r \in Runs : PerEmailDelay(r)
    \/ \E r \in Runs : Pacing(r)
    \/ \E r \in Runs : BatchExcept(r)
    \/ \E r \in Runs : Returned(r)
    \/ \E r \in Runs : Cooldown(r)
    \/ Midnight

SpecConc == InitConc /\ [][NextConc]_vars

\* ---- vocabulary of the properties ----

\* the rows that run r wrote for line pos of the CSV in its batch b
RowsFor(r, b, pos) ==
    {k \in DOMAIN sends : /\ sends[k].run = r
                          /\ sends[k].batch = b
                          /\ sends[k].pos = pos}

\* the rows that run r wrote
RowsOf(r) == {k \in DOMAIN sends : sends[k].run = r}

\* the elements of a sequence
Range(s) == {s[n] : n \in DOMAIN s}

\* the concatenation of a sequence of sequences
RECURSIVE Flatten(_)
Flatten(ss) == IF ss = <<>> THEN <<>> ELSE Head(ss) \o Flatten(Tail(ss))

\* the smallest k with k * B >= E
Ceil(E, B) == CHOOSE k \in 0..E : k * B >= E /\ (k - 1) * B < E

\* run r has been started
Started(r) == proc[r].pc # "idle"

\* line pos of the CSV has a 'sent' or 'dry-run' row dated day, written
\* before run r started
LoggedBefore(r, pos, day) ==
    \E k \in DOMAIN sends :
        /\ sends[k].run < r
        /\ sends[k].email = recipients_df[pos]
        /\ sends[k].status \in {"sent", "dry-run"}
        /\ sends[k].day = day

\* line pos of the CSV has only 'failed' rows dated day, written before
\* run r started
FailedOnlyBefore(r, pos, day) ==
    LET mine == {k \in DOMAIN sends : /\ sends[k].run < r
                                      /\ sends[k].email = recipients_df[pos]
                                      /\ sends[k].day = day}
    IN mine # {} /\ \A k \in mine : sends[k].status = "failed"

\* the addresses of the CSV are pairwise distinct
UniqueEmails ==
    \A m, n \in DOMAIN recipients_df : recipients_df[m] = recipients_df[n] => m = n

\* ---- C2 ----

\* C2: when run_campaign filters, the eligible list before the daily cap is
\* exactly the lines of the CSV, in their original order, whose address has
\* no 'sent' or 'dry-run' row dated today; lines with no row today or with
\* only 'failed' rows today are kept.
C2_FilterExact ==
    \A r \in Runs : Started(r) =>
        LET elig == proc[r].eligible
        IN /\ \A pos \in DOMAIN recipients_df :
                  pos \in Range(elig) <=> ~LoggedBefore(r, pos, proc[r].start_day)
           /\ Range(elig) \subseteq DOMAIN recipients_df
           /\ \A m, n \in DOMAIN elig : m < n => elig[m] < elig[n]

\* a later run has filtered a list of which one line was logged 'sent' today
\* and is excluded, and one line has only 'failed' rows today and is kept
C2_Witness ==
    \E r \in Runs : \E p1, p2 \in DOMAIN recipients_df :
        /\ Started(r)
        /\ LoggedBefore(r, p1, proc[r].start_day)
        /\ p1 \notin Range(proc[r].eligible)
        /\ FailedOnlyBefore(r, p2, proc[r].start_day)
        /\ p2 \in Range(proc[r].eligible)

\* ---- C7 ----

\* C7: when the filtered list has more than total_per_day entries, exactly
\* its first total_per_day entries, in order, are processed, and the run
\* writes no row and transmits no message for any of the other entries.
C7_DailyCap ==
    \A r \in Runs :
        LET p == proc[r]
            N == total_per_day
        IN (Started(r) /\ Len(p.eligible) > N) =>
            /\ p.recipients_to_send = [n \in 1..N |-> p.eligible[n]]
            /\ \A k \in RowsOf(r) :
                   \E n \in 1..N : sends[k].pos = p.eligible[n]
            /\ \A n \in (N + 1)..Len(p.eligible) :
                   p.transmits[p.eligible[n]] = 0
            /\ \A n \in DOMAIN Flatten(p.batches) :
                   n <= N /\ Flatten(p.batches)[n] = p.eligible[n]
            /\ p.pc = "done" => Len(Flatten(p.batches)) = N

\* a run whose filtered list was longer than the cap has finished and
\* logged the entries below the cap
C7_Witness ==
    \E r \in Runs :
        /\ proc[r].pc = "done"
        /\ Len(proc[r].eligible) > total_per_day
        /\ Cardinality(RowsOf(r)) = total_per_day

\* ---- C8 ----

\* C8: for batch_size B >= 1 and E >= 1 recipients to send, send_batch is
\* called ceil(E/B) times on consecutive slices in order; every slice but
\* the last has B entries, none is empty, and together they are the list.
C8_Batching ==
    \A r \in Runs :
        LET p == proc[r]
            E == Len(p.recipients_to_send)
            B == batch_size
            flat == Flatten(p.batches)
        IN (Started(r) /\ E >= 1) =>
            /\ Len(p.batches) <= Ceil(E, B)
            /\ \A n \in DOMAIN p.batches :
                   /\ p.batches[n] # <<>>
                   /\ Len(p.batches[n]) <= B
                   /\ n < Ceil(E, B) => Len(p.batches[n]) = B
            /\ \A n \in DOMAIN flat :
                   n <= E /\ flat[n] = p.recipients_to_send[n]
            /\ p.pc = "done" =>
                   /\ Len(p.batches) = Ceil(E, B)
                   /\ flat = p.recipients_to_send

\* a run has finished after two batches, the last one shorter than B
C8_Witness ==
    \E r \in Runs :
        /\ proc[r].pc = "done"
        /\ Len(proc[r].batches) = 2
        /\ Len(proc[r].batches[2]) < batch_size

\* ---- C4 ----

\* the recipient that run r is working on
Current(r) == proc[r].batch_df[proc[r].j]

\* C4: in a non-dry-run batch a recipient whose every attempt fails is
\* attempted exactly 3 times and then gets exactly one 'failed' row with a
\* non-empty error message, none while the attempts last; a recipient whose
\* attempt k <= 3 succeeds gets exactly one 'sent' row and no later attempt.
C4_RetryThenOneRow ==
    \A r \in Runs :
        LET p == proc[r]
            rows == RowsFor(r, p.i, Current(r))
            allFail == \A n \in DOMAIN p.tries : ~p.tries[n]
        IN /\ p.pc \in {"attempt", "backoff"} =>
                /\ rows = {}
                /\ allFail
                /\ Len(p.tries) < MaxAttempts
           /\ p.pc = "per_email_delay" =>
                /\ Cardinality(rows) = 1
                /\ Len(p.tries) \in 1..MaxAttempts
                /\ \A n \in 1..(Len(p.tries) - 1) : ~p.tries[n]
                /\ \A k \in rows :
                     IF allFail
                     THEN /\ Len(p.tries) = MaxAttempts
                          /\ sends[k].status = "failed"
                          /\ sends[k].error_message \notin {NULL, ""}
                     ELSE /\ sends[k].status = "sent"
                          /\ p.transmits[Current(r)] = 1
           /\ p.pc \in {"attempt", "backoff", "per_email_delay"} =>
                \A n \in 1..(p.j - 1) :
                    Cardinality(RowsFor(r, p.i, p.batch_df[n])) = 1

\* the second recipient of a batch has failed three attempts and has its
\* 'failed' row, after the first recipient of the batch was sent
C4_Witness ==
    \E r \in Runs :
        /\ proc[r].pc = "per_email_delay"
        /\ proc[r].tries = <<FALSE, FALSE, FALSE>>
        /\ proc[r].j = 2
        /\ \E k \in RowsFor(r, proc[r].i, proc[r].batch_df[1]) :
               sends[k].status = "sent"

\* ---- C5 ----

\* C5: when opening the session or authenticating fails for a batch, no
\* message of the batch is transmitted, every recipient of the batch gets a
\* 'failed' row whose reason names the connection or authentication
\* failure, and the batch gets no 'sent' row.
C5_OpenFailure ==
    \A r \in Runs :
        LET p == proc[r]
        IN /\ (p.pc = "except" /\ p.tries = <<>> /\ p.j = 1) =>
                \A n \in DOMAIN p.batch_df :
                    /\ RowsFor(r, p.i, p.batch_df[n]) = {}
                    /\ p.transmits[p.batch_df[n]] = 0
           /\ (p.pc = "returned" /\ p.exc # "none") =>
                \A n \in DOMAIN p.batch_df :
                    LET rows == RowsFor(r, p.i, p.batch_df[n])
                    IN /\ Cardinality(rows) = 1
                       /\ p.transmits[p.batch_df[n]] = 0
                       /\ \A k \in rows :
                            /\ sends[k].status = "failed"
                            /\ sends[k].email = recipients_df[p.batch_df[n]]
                            /\ p.exc = "auth" =>
                                 sends[k].error_message = AuthErrText
                            /\ p.exc = "other" =>
                                 sends[k].error_message = ConnErrText

\* send_batch has returned from a two-recipient batch whose login was
\* rejected
C5_Witness ==
    \E r \in Runs :
        /\ proc[r].pc = "returned"
        /\ proc[r].exc = "auth"
        /\ Len(proc[r].batch_df) = 2
        /\ proc[r].connects >= 1

\* ---- C1 ----

\* runs r and r + 1 are executed one after the other on the same calendar
\* day, on a list of distinct addresses none of which has only 'failed'
\* rows that day when the second run starts
TwiceSameDay(r) ==
    /\ r + 1 \in Runs
    /\ Started(r + 1)
    /\ proc[r].start_day = proc[r + 1].start_day
    /\ today = proc[r].start_day
    /\ UniqueEmails
    /\ \A pos \in DOMAIN recipients_df :
           ~FailedOnlyBefore(r + 1, pos, proc[r].start_day)

\* no recipient is transmitted to more than once by runs r and r + 1
AtMostOnce(r) ==
    \A pos \in DOMAIN recipients_df :
        proc[r].transmits[pos] + proc[r + 1].transmits[pos] <= 1

LoggedBy(r, pos) ==
    \E k \in RowsOf(r) : /\ sends[k].pos = pos
                         /\ sends[k].status \in {"sent", "dry-run"}

C3_OneTerminalRow ==
    \A r \in Runs : proc[r].pc = "returned" =>
        \A n \in DOMAIN proc[r].batch_df :
            Cardinality(RowsFor(r, proc[r].i, proc[r].batch_df[n])) = 1

\* no recipient ever has two rows from one call of send_batch (holds while
\* every INSERT succeeds, fails once an INSERT of the recipient loop raises)
C3_NeverTwoRows ==
    \A r \in Runs : \A b \in 0..MaxLen : \A pos \in DOMAIN recipients_df :
        Cardinality(RowsFor(r, b, pos)) <= 1

\* ---- C6 ----

\* C6: a dry run never opens a transport session, and when it is over every
\* recipient to send has a 'dry-run' row, whatever the SMTP settings are.
C6_DryRunNoSession ==
    \A r \in Runs : (Started(r) /\ proc[r].dry_run) =>
        /\ proc[r].connects = 0
        /\ \A pos \in DOMAIN recipients_df : proc[r].transmits[pos] = 0
        /\ proc[r].pc = "done" =>
               \A n \in DOMAIN proc[r].recipients_to_send :
                   \E k \in RowsOf(r) :
                       /\ sends[k].pos = proc[r].recipients_to_send[n]
                       /\ sends[k].status = "dry-run"

\* ---- C9 ----

\* C9: with the SMTP settings missing, the run opens no session, transmits
\* nothing, raises nothing, and once the configuration error is reported it
\* starts no further batch and waits no cooldown.
C9_ConfigErrorAborts ==
    \A r \in Runs : (Started(r) /\ ~proc[r].smtp_configured) =>
        /\ proc[r].connects = 0
        /\ \A pos \in DOMAIN recipients_df : proc[r].transmits[pos] = 0
        /\ proc[r].pc # "crashed"
        /\ proc[r].recipients_to_send # <<>> /\ proc[r].pc = "done" =>
               proc[r].config_errors >= 1
        /\ proc[r].config_errors >= 1 =>
               /\ Len(proc[r].batches) = 1
               /\ proc[r].cooldowns = 0
               /\ proc[r].pc \in {"returned", "done"}

\* ---- C10 ----

\* C10: a log_send that raises is never counted as a failed send attempt:
\* no attempt follows a send_message call that succeeded, so no recipient
\* is transmitted to twice by one run.
C10_LogFailureNotRetried ==
    \A r \in Runs :
        /\ \A n \in DOMAIN proc[r].tries :
               proc[r].tries[n] =>
                   /\ n = Len(proc[r].tries)
                   /\ proc[r].pc \notin {"attempt", "backoff"}
        /\ \A pos \in DOMAIN proc[r].transmits : proc[r].transmits[pos] <= 1

\* ---- C11 ----

\* C11: once the session is lost while a batch is being sent, no send
\* attempt is made for any later recipient of that batch: a recipient that
\* has had no attempt when the session is lost never gets one.
C11_LostSessionAbortsBatch ==
    [][\A r \in Runs :
          (proc[r].server = "lost" /\ proc[r].tries = <<>>) =>
              proc'[r].tries = <<>>]_vars

\* ---- C12 ----

\* run r wrote, in its batch b, a row for line pos that is the outcome of
\* send attempts: 'sent', or 'failed' with the error of a send_message
AttemptedRow(r, b, pos) ==
    \E k \in RowsFor(r, b, pos) :
        \/ sends[k].status = "sent"
        \/ /\ sends[k].status = "failed"
           /\ sends[k].error_message \in {RejectErrText, LostErrText}

\* C12: a failed recipient never keeps the later recipients of its batch
\* from being attempted, and a failed session open or login never keeps the
\* later batches from being run: when the run reports completion every
\* batch of the partition was passed to send_batch and was accounted for.
C12_FailureContained ==
    \A r \in Runs :
        LET p == proc[r]
        IN (Started(r) /\ p.smtp_configured /\ ~p.dry_run) =>
            /\ (p.pc = "returned" /\ p.exc = "none") =>
                   \A n \in DOMAIN p.batch_df :
                       AttemptedRow(r, p.i, p.batch_df[n])
            /\ p.pc \in {"attempt", "backoff", "per_email_delay"} =>
                   \A n \in 1..(p.j - 1) :
                       AttemptedRow(r, p.i, p.batch_df[n])
            /\ p.pc = "done" =>
                   /\ Flatten(p.batches) = p.recipients_to_send
                   /\ p.connects = Len(p.batches)
                   /\ \A b \in DOMAIN p.batches : \A n \in DOMAIN p.batches[b] :
                          RowsFor(r, b - 1, p.batches[b][n]) # {}

\* a run is complete in whose first batch a recipient failed every attempt
\* before the next one was sent, and whose second batch was sent too
C12_Witness ==
    \E r \in Runs :
        /\ proc[r].pc = "done"
        /\ Len(proc[r].batches) = 2
        /\ Len(proc[r].batches[1]) = 2
        /\ \E k \in RowsFor(r, 0, proc[r].batches[1][1]) :
               /\ sends[k].status = "failed"
               /\ sends[k].error_message = RejectErrText
        /\ \E k \in RowsFor(r, 0, proc[r].batches[1][2]) :
               sends[k].status = "sent"
        /\ \E k \in RowsFor(r, 1, proc[r].batches[2][1]) :
               sends[k].status = "sent"

\* ---- C13 ----

\* C13: a run whose eligible set is empty is a no-op: it is over at once,
\* without a log row, a transport session, a batch, a cooldown or an error.
C13_EmptyIsNoOp ==
    \A r \in Runs :
        LET p == proc[r]
        IN (Started(r) /\ p.recipients_to_send = <<>>) =>
            /\ p.eligible = <<>>
            /\ p.pc = "done"
            /\ RowsOf(r) = {}
            /\ p.batches = <<>>
            /\ p.connects = 0
            /\ p.cooldowns = 0
            /\ p.config_errors = 0
            /\ \A pos \in DOMAIN p.transmits : p.transmits[pos] = 0

\* a run was started on a list of two recipients that both have a 'sent' or
\* 'dry-run' row today, and had nothing to send
C13_Witness ==
    \E r \in Runs :
        /\ Started(r)
        /\ Len(recipients_df) >= 2
        /\ proc[r].recipients_to_send = <<>>
        /\ \A pos \in DOMAIN recipients_df :
               LoggedBefore(r, pos, proc[r].start_day)

\* ---- C14 ----

\* rows k1 < k2 are two 'sent' rows for the same line of the CSV, dated the
\* same day
SentTwice(k1, k2) ==
    /\ k1 < k2
    /\ sends[k1].status = "sent"
    /\ sends[k2].status = "sent"
    /\ sends[k1].pos = sends[k2].pos
    /\ sends[k1].day = sends[k2].day

\* C14: concurrent campaigns are coordinated by the log query only: a
\* recipient gets two 'sent' rows on one day exactly through the race, that
\* is from two different runs of which the second had queried the log
\* before the first wrote its row; the witness is that interleaving.
C14_DoubleSendByRaceOnly ==
    \A k1, k2 \in DOMAIN sends : SentTwice(k1, k2) =>
        /\ sends[k1].run # sends[k2].run
        /\ proc[sends[k2].run].seen < k1

\* both runs computed their eligible set before either had logged the
\* recipient, and both then transmitted to it: two 'sent' rows for one email
C14_Witness ==
    \E k1, k2 \in DOMAIN sends :
        /\ SentTwice(k1, k2)
        /\ sends[k1].email = sends[k2].email
        /\ sends[k1].run # sends[k2].run
        /\ proc[sends[k1].run].seen < k1
        /\ proc[sends[k2].run].seen < k1
        /\ proc[sends[k1].run].transmits[sends[k1].pos] = 1
        /\ proc[sends[k2].run].transmits[sends[k2].pos] = 1

\* ---- C15 ----

\* the session of run r exists: opened and not yet closed
InSession(r) == proc[r].server \in {"open", "lost"}

\* C15: in a non-dry run with its SMTP settings, one session is opened per
\* batch, every send of the batch happens inside it, it is closed when
\* send_batch returns, hence before the cooldown and before the session of
\* the next batch, and at most one session is open at any time.
C15_OneSessionPerBatch ==
    /\ Cardinality({r \in Runs : InSession(r)}) <= 1
    /\ \A r \in Runs :
        LET p == proc[r]
        IN (Started(r) /\ p.smtp_configured /\ ~p.dry_run) =>
            /\ p.pc = "connect" =>
                   ~InSession(r) /\ p.connects = Len(p.batches) - 1
            /\ p.pc \in {"attempt", "backoff", "per_email_delay"} =>
                   InSession(r) /\ p.connects = Len(p.batches)
            /\ p.pc \in {"except", "returned"} =>
                   p.server = "closed" /\ p.connects = Len(p.batches)
            /\ p.pc \in {"cooldown", "batch", "done"} =>
                   ~InSession(r) /\ p.connects = Len(p.batches)

\* send_batch has returned from the second batch of a run: two sessions
\* were opened, the second one sent a message and is closed
C15_Witness ==
    \E r \in Runs :
        /\ proc[r].smtp_configured /\ ~proc[r].dry_run
        /\ proc[r].pc = "returned"
        /\ proc[r].server = "closed"
        /\ proc[r].connects = 2
        /\ \E k \in RowsOf(r) : sends[k].batch = 1 /\ sends[k].status = "sent"

\* ---- C16 ----

\* C16: the batches are processed in partition order, and batch_interval is
\* waited after a batch exactly when batches remain: once between batch i
\* and batch i + 1, never after the last, k - 1 times for k batches.
C16_CooldownBetweenBatches ==
    \A r \in Runs :
        LET p == proc[r]
            E == Len(p.recipients_to_send)
            B == batch_size
            k == Ceil(E, B)
        IN (Started(r) /\ E >= 1) =>
            /\ \A n \in DOMAIN p.batches :
                   p.batches[n] = SubSeq(p.recipients_to_send,
                                         (n - 1) * B + 1, Min(n * B, E))
            /\ p.pc = "batch" =>
                   /\ p.cooldowns = Len(p.batches)
                   /\ Len(p.batches) < k
            /\ p.pc # "batch" => p.cooldowns = Len(p.batches) - 1
            /\ p.pc = "cooldown" => Len(p.batches) < k
            /\ p.pc = "done" => Len(p.batches) = k /\ p.cooldowns = k - 1

\* a run of three batches is complete and has waited two cooldowns
C16_Witness ==
    \E r \in Runs :
        /\ proc[r].pc = "done"
        /\ Len(proc[r].batches) = 3
        /\ proc[r].cooldowns = 2

\* ---- C17 ----

\* the statuses of the rows run r has written for the recipient it is at
CurrentStatuses(r) ==
    {sends[k].status : k \in RowsFor(r, proc[r].i, Current(r))}

\* the recipient loop of run r moves on to the next recipient of its batch
MovesOn(r) ==
    /\ proc[r].j \in DOMAIN proc[r].batch_df
    /\ proc'[r].batch_df = proc[r].batch_df
    /\ proc'[r].j # proc[r].j

\* C17 as stated: the loop moves on to the next recipient only from
\* time.sleep(per_email_delay), whatever the recipient's outcome was.
C17_AlwaysPerEmailDelay ==
    [][\A r \in Runs :
          MovesOn(r) =>
              /\ proc'[r].j = proc[r].j + 1
              /\ CurrentStatuses(r) # {}
              /\ proc[r].pc = "per_email_delay"]_vars

\* C17, amended: the recipients of a batch are processed in input order;
\* after a recipient logged sent or failed the loop waits per_email_delay
\* before it moves on, and after a recipient logged dry-run it waits the
\* fixed 0.1 s pacing delay instead, never per_email_delay.
C17_DelayAfterRecipient ==
    [][\A r \in Runs :
          /\ \A m, n \in DOMAIN proc[r].batch_df :
                 m < n => proc[r].batch_df[m] < proc[r].batch_df[n]
          /\ MovesOn(r) =>
                 /\ proc'[r].j = proc[r].j + 1
                 /\ \/ /\ CurrentStatuses(r) = {"dry-run"}
                       /\ proc[r].pc = "pacing"
                    \/ /\ CurrentStatuses(r) \in {{"sent"}, {"failed"}}
                       /\ proc[r].pc = "per_email_delay"]_vars

\* a dry run is at the second recipient of a batch, the first one logged
\* dry-run
C17_Witness ==
    \E r \in Runs :
        LET p == proc[r]
        IN /\ p.dry_run
           /\ p.pc = "dry_run"
           /\ p.j = 2
           /\ {sends[k].status : k \in RowsFor(r, p.i, p.batch_df[1])}
                  = {"dry-run"}

\* ---- C18 ----

\* the number of failed attempts among the attempts made so far
FailedTries(r) ==
    Cardinality({n \in DOMAIN proc[r].tries : ~proc[r].tries[n]})

\* C18: a failed attempt with index 0 is followed by a backoff of 1 s and
\* one with index 1 by a backoff of 2 s, each before the next attempt of the
\* same recipient; the failed attempt with index 2 is followed by no
\* backoff and by the 'failed' row; a successful attempt is followed by no
\* backoff; every attempt has built its own message.
C18_Backoff ==
    \A r \in Runs :
        LET p == proc[r]
            n == Len(p.tries)
        IN (p.pc \in {"attempt", "backoff", "per_email_delay"}) =>
            /\ p.built = n
            /\ p.slept = SubSeq(<<1, 2>>, 1, Min(FailedTries(r), 2))
            /\ p.pc = "attempt" => n = p.attempt /\ FailedTries(r) = n
            /\ p.pc = "backoff" =>
                   /\ p.attempt \in {0, 1}
                   /\ n = p.attempt + 1
                   /\ ~p.tries[n]
                   /\ Len(p.slept) = n
                   /\ RowsFor(r, p.i, Current(r)) = {}
            /\ p.pc = "per_email_delay" =>
                   /\ n = p.attempt + 1
                   /\ Len(p.slept) = Min(p.attempt, 2)
                   /\ \/ p.tries[n]
                      \/ /\ p.attempt = 2
                         /\ CurrentStatuses(r) = {"failed"}

\* a recipient has failed three times, after backoffs of 1 s and 2 s, and
\* has its 'failed' row
C18_Witness ==
    \E r \in Runs :
        /\ proc[r].pc = "per_email_delay"
        /\ proc[r].tries = <<FALSE, FALSE, FALSE>>
        /\ proc[r].slept = <<1, 2>>
        /\ proc[r].built = 3
        /\ CurrentStatuses(r) = {"failed"}

\* ---- C19 ----

\* the recipients that have a 'sent' or 'dry-run' row dated day
ContactedOn(day) ==
    {sends[k].email : k \in {n \in DOMAIN sends :
                                /\ sends[n].day = day
                                /\ sends[n].status \in {"sent", "dry-run"}}}

\* C19: on every calendar day, however many runs were made one after the
\* other, at most total_per_day recipients have a 'sent' or 'dry-run' row
\* dated that day.
C19_DailyLimitOverDay ==
    \A day \in 1..today : Cardinality(ContactedOn(day)) <= total_per_day

\* ---- C20 ----

\* the attempts made for the current recipient and the batches handed to
\* send_batch stay within their loops' ranges
LoopsBounded ==
    \A r \in Runs :
        LET p == proc[r]
            k == Ceil(Len(p.recipients_to_send), batch_size)
        IN /\ Len(p.tries) <= MaxAttempts
           /\ p.attempt < MaxAttempts
           /\ Len(p.batches) <= k
           /\ (p.i < k \/ k = 0)
           /\ \A m, n \in DOMAIN p.batches :
                  m # n => Range(p.batches[m]) \cap Range(p.batches[n]) = {}

\* C20: whatever the transport does, a run that has started reaches
\* 'All batches processed'; on the way no recipient is attempted more than
\* 3 times and no batch is processed twice.
C20_Terminates ==
    /\ []LoopsBounded
    /\ \A r \in Runs : Started(r) ~> proc[r].pc = "done"

\* a run is complete although a recipient of its second batch failed at all
\* three attempts
C20_Witness ==
    \E r \in Runs :
        /\ proc[r].pc = "done"
        /\ Len(proc[r].batches) = 2
        /\ \E k \in RowsOf(r) : sends[k].status = "failed" /\ sends[k].batch = 1
                                /\ sends[k].error_message = RejectErrText

====
